---- MODULE Spec2Model ----
(***************************************************************************)
(* Model of ACS.py: the battery catalog, simulate_battery and the 8-tab    *)
(* dashboard script that calls it once per cell.                           *)
(*                                                                         *)
(* Python numbers are modelled as exact rationals [num, den] in lowest     *)
(* terms: the model describes the arithmetic of the algorithm, not the     *)
(* rounding of IEEE doubles.                                               *)
(*                                                                         *)
(* Two specifications share the actions of the script body:                *)
(*   Spec      lines 89-94 (catalog lookup, then the call of               *)
(*             simulate_battery) run from an arbitrary binding of the      *)
(*             five inputs, the ones no widget offers included;            *)
(*   SpecDash  the whole script: the per-cell loop over the widgets of     *)
(*             st.session_state, re-run from the top when a widget changes.*)
(***************************************************************************)
EXTENDS Integers, Sequences, FiniteSets, TLC

\* ------------------------------------------------------------------------
\* Bounds of the model.
\* ------------------------------------------------------------------------
\* largest duration / series / parallel argument handed to simulate_battery
MaxDuration == 5
MaxSeries == 2
MaxParallel == 2
\* dashboard: cells rendered (range(8) in ACS.py:55), options of each widget
\* the user reaches (counted from the head of the widget's option list),
\* widget changes in one session
NumCells == 2
Reach == 2
MaxReruns == 1

\* ------------------------------------------------------------------------
\* Numbers: exact rationals.
\* ------------------------------------------------------------------------
Abs(x) == IF x < 0 THEN 0 - x ELSE x

RECURSIVE GCD(_, _)
GCD(a, b) == IF b = 0 THEN a ELSE GCD(b, a % b)

\* the number n/d (d # 0), in lowest terms with a positive denominator
Rat(n, d) ==
    LET g == GCD(Abs(n), Abs(d))
        s == IF d < 0 THEN 0 - 1 ELSE 1
    IN  [num |-> s * (n \div g), den |-> Abs(d) \div g]

Num(i) == Rat(i, 1)

Add(x, y) == Rat(x.num * y.den + y.num * x.den, x.den * y.den)
Sub(x, y) == Rat(x.num * y.den - y.num * x.den, x.den * y.den)
Mul(x, y) == Rat(x.num * y.num, x.den * y.den)
\* x / y; Python raises ZeroDivisionError for y = 0, callers never get there
Div(x, y) == Rat(x.num * y.den, x.den * y.num)
Leq(x, y) == x.num * y.den <= y.num * x.den
\* Python's min(a, b) and max(a, b): the first argument wins a tie
min(x, y) == IF Leq(x, y) THEN x ELSE y
max(x, y) == IF Leq(y, x) THEN x ELSE y

\* ------------------------------------------------------------------------
\* Namespaces: a Python scope is a function from the names bound in it.
\* ------------------------------------------------------------------------
EmptyScope == [k \in {} |-> 0]
Bind(scope, name, val) ==
    [k \in DOMAIN scope \cup {name} |-> IF k = name THEN val ELSE scope[k]]
Bound(scope, name) == name \in DOMAIN scope

\* ------------------------------------------------------------------------
\* The catalog (ACS.py:10-19).
\* ------------------------------------------------------------------------
Profile(v, c, e) == [voltage |-> v, capacity |-> c, efficiency |-> e]

\* list(battery_types.keys()): insertion order
TypeOrder ==
    << "Lithium-Ion", "Lead-Acid", "NiMH", "Solid-State",
       "NMC", "LFP", "LCO", "LMO" >>

BatteryTypes ==
    [n \in {TypeOrder[k] : k \in 1..Len(TypeOrder)} |->
        CASE n = "Lithium-Ion" -> Profile(Rat(37, 10), Rat(25, 10), Rat(95, 100))
          [] n = "Lead-Acid"   -> Profile(Rat(20, 10), Rat(50, 10), Rat(85, 100))
          [] n = "NiMH"        -> Profile(Rat(12, 10), Rat(20, 10), Rat(75, 100))
          [] n = "Solid-State" -> Profile(Rat(38, 10), Rat(30, 10), Rat(98, 100))
          [] n = "NMC"         -> Profile(Rat(37, 10), Rat(28, 10), Rat(95, 100))
          [] n = "LFP"         -> Profile(Rat(32, 10), Rat(30, 10), Rat(98, 100))
          [] n = "LCO"         -> Profile(Rat(37, 10), Rat(25, 10), Rat(92, 100))
          [] n = "LMO"         -> Profile(Rat(37, 10), Rat(22, 10), Rat(90, 100))]

Modes == {"Charging", "Discharging"}

\* ------------------------------------------------------------------------
\* simulate_battery (ACS.py:22-48), statement by statement.
\* ------------------------------------------------------------------------
\* (variant: battery_types.get(key, <first entry>) in place of the subscript)
getitem_default(d, key) ==
    IF key \in DOMAIN d THEN [ok |-> TRUE, value |-> d[key]]
                        ELSE [ok |-> TRUE, value |-> d[TypeOrder[1]]]

\* d[key]: the value, or KeyError
getitem(d, key) ==
    IF key \in DOMAIN d THEN [ok |-> TRUE, value |-> d[key]]
                        ELSE [ok |-> FALSE, value |-> "KeyError"]

\* (variant: np.arange(1, stop + 1, 1))
arange_from_one(stop) == [k \in 1..(IF stop > 0 THEN stop ELSE 0) |-> k]

\* np.arange(0, stop, 1): 0, 1, ..., stop - 1; empty when stop <= 0
arange(stop) == [k \in 1..(IF stop > 0 THEN stop ELSE 0) |-> k - 1]

total_voltage_of(b_config, series_cells) ==
    Mul(b_config.voltage, Num(series_cells))

\* (variant: the capacity derated by the profile's efficiency)
total_capacity_of_usable(b_config, parallel_cells) ==
    Mul(Mul(b_config.capacity, b_config.efficiency), Num(parallel_cells))

total_capacity_of(b_config, parallel_cells) ==
    Mul(b_config.capacity, Num(parallel_cells))

initial_soc(mode) == IF mode = "Charging" THEN Num(0) ELSE Num(100)

\* (variant: the else branch pasted from the if branch, sign not flipped)
update_soc_pasted(mode, soc_val, duration) ==
    IF mode = "Charging"
    THEN min(Num(100), Add(soc_val, Div(Num(100), Num(duration))))
    ELSE max(Num(0), Add(soc_val, Div(Num(100), Num(duration))))

\* (variant: the if branch subtracts)
update_soc_minus(mode, soc_val, duration) ==
    IF mode = "Charging"
    THEN min(Num(100), Sub(soc_val, Div(Num(100), Num(duration))))
    ELSE max(Num(0), Sub(soc_val, Div(Num(100), Num(duration))))

\* lines 31-34
update_soc(mode, soc_val, duration) ==
    IF mode = "Charging"
    THEN min(Num(100), Add(soc_val, Div(Num(100), Num(duration))))
    ELSE max(Num(0), Sub(soc_val, Div(Num(100), Num(duration))))

\* (variant: the direction factor dropped)
current_of_unsigned(total_capacity, duration, mode) ==
    Div(total_capacity, Num(duration))

\* line 36
current_of(total_capacity, duration, mode) ==
    Mul(Div(total_capacity, Num(duration)),
        IF mode = "Charging" THEN Num(1) ELSE Num(0 - 1))

\* (variant: the SOC taken as a fraction, not a percentage)
voltage_of_fraction(total_voltage, soc_val) ==
    Mul(total_voltage, soc_val)

\* line 37
voltage_of(total_voltage, soc_val) ==
    Mul(total_voltage, Div(soc_val, Num(100)))

\* lines 22-28: the frame of a call, before the loop
enter(b_config, series_cells, parallel_cells, mode, duration) ==
    [ b_config       |-> b_config,
      series_cells   |-> series_cells,
      parallel_cells |-> parallel_cells,
      mode           |-> mode,
      duration       |-> duration,
      total_voltage  |-> total_voltage_of(b_config, series_cells),
      total_capacity |-> total_capacity_of(b_config, parallel_cells),
      time           |-> arange(duration),
      soc            |-> << >>,
      voltage        |-> << >>,
      current        |-> << >>,
      soc_val        |-> initial_soc(mode),
      done           |-> 0 ]

\* (variant: the sample recorded before the SOC is updated)
loop_body_record_first(f) ==
    LET soc_val     == update_soc(f.mode, f.soc_val, f.duration)
        current_val == current_of(f.total_capacity, f.duration, f.mode)
        voltage_val == voltage_of(f.total_voltage, f.soc_val)
    IN  [f EXCEPT !.soc_val = soc_val,
                  !.soc     = Append(f.soc, f.soc_val),
                  !.current = Append(f.current, current_val),
                  !.voltage = Append(f.voltage, voltage_val),
                  !.done    = f.done + 1]

\* lines 30-41: one iteration of `for t in time`; done counts the iterations
loop_body(f) ==
    LET soc_val     == update_soc(f.mode, f.soc_val, f.duration)
        current_val == current_of(f.total_capacity, f.duration, f.mode)
        voltage_val == voltage_of(f.total_voltage, soc_val)
    IN  [f EXCEPT !.soc_val = soc_val,
                  !.soc     = Append(f.soc, soc_val),
                  !.current = Append(f.current, current_val),
                  !.voltage = Append(f.voltage, voltage_val),
                  !.done    = f.done + 1]

\* lines 43-48: the returned tuple (DataFrame, total_voltage, total_capacity)
return_value(f) ==
    << [Time |-> f.time, SOC |-> f.soc, Current |-> f.current, Voltage |-> f.voltage],
       f.total_voltage, f.total_capacity >>

RECURSIVE run_loop(_)
run_loop(f) == IF f.done < Len(f.time) THEN run_loop(loop_body(f)) ELSE f

\* the whole call, as a function of its arguments
simulate_battery(b_config, series_cells, parallel_cells, mode, duration) ==
    return_value(run_loop(enter(b_config, series_cells, parallel_cells, mode, duration)))

\* ------------------------------------------------------------------------
\* State.
\* ------------------------------------------------------------------------
VARIABLES
    battery_types,   \* the module-level catalog dict
    session,         \* st.session_state: widget key -> value
    shown,           \* cell -> what this run of the script has rendered for it
    i,               \* the loop variable of `for i, tab in enumerate(cell_tabs)`
    ns,              \* the script's namespace: the names bound so far
    frame,           \* the locals of the running simulate_battery call
    pc,              \* where the script is
    error,           \* the exception that ended the script, if any
    reruns           \* widget changes so far, each of which re-runs the script

vars == << battery_types, session, shown, i, ns, frame, pc, error, reruns >>

Cells == 0..(NumCells - 1)

\* ------------------------------------------------------------------------
\* Widgets (ACS.py:62-87).
\* ------------------------------------------------------------------------
Widgets == {"type", "series", "parallel", "mode", "duration"}

\* key=f"type_{i}", f"series_{i}", ...
key(prefix, cell) == << prefix, cell >>

Range(lo, hi) == [k \in 1..(hi - lo + 1) |-> lo + k - 1]

\* the values a widget offers, in order
options(prefix) ==
    CASE prefix = "type"     -> TypeOrder
      [] prefix = "series"   -> Range(1, 10)
      [] prefix = "parallel" -> Range(1, 5)
      [] prefix = "mode"     -> << "Charging", "Discharging" >>
      [] prefix = "duration" -> Range(10, 100)

\* the value a widget holds before the user touches it
default(prefix) ==
    CASE prefix = "type"     -> TypeOrder[1]
      [] prefix = "series"   -> 3
      [] prefix = "parallel" -> 2
      [] prefix = "mode"     -> "Charging"
      [] prefix = "duration" -> 60

Reachable(prefix) ==
    LET o == options(prefix)
    IN  {o[k] : k \in 1..(IF Reach < Len(o) THEN Reach ELSE Len(o))}

Unrendered == [c \in Cells |-> << >>]

\* ------------------------------------------------------------------------
\* The script, one action per group of statements.
\* ------------------------------------------------------------------------
\* (variant: the series slider's key written without the cell index)
ReadWidgets_shared_key ==
    /\ pc = "widgets"
    /\ ns' = Bind(Bind(Bind(Bind(Bind(ns,
                "battery_type",    session[key("type", i)]),
                "series_cells",    session[key("series", 0)]),
                "parallel_cells",  session[key("parallel", i)]),
                "sim_mode",        session[key("mode", i)]),
                "simulation_time", session[key("duration", i)])
    /\ pc' = "lookup"
    /\ UNCHANGED << battery_types, session, shown, i, frame, error, reruns >>

\* lines 57-87: the head of the loop body reads cell i's five widgets
ReadWidgets ==
    /\ pc = "widgets"
    /\ ns' = Bind(Bind(Bind(Bind(Bind(ns,
                "battery_type",    session[key("type", i)]),
                "series_cells",    session[key("series", i)]),
                "parallel_cells",  session[key("parallel", i)]),
                "sim_mode",        session[key("mode", i)]),
                "simulation_time", session[key("duration", i)])
    /\ pc' = "lookup"
    /\ UNCHANGED << battery_types, session, shown, i, frame, error, reruns >>

\* line 89: b_config = battery_types[battery_type]
Lookup ==
    /\ pc = "lookup"
    /\ LET r == getitem(battery_types, ns.battery_type)
       IN  IF r.ok
           THEN /\ ns' = Bind(ns, "b_config", r.value)
                /\ pc' = "call"
                /\ UNCHANGED error
           ELSE /\ pc' = "raised"
                /\ error' = r.value
                /\ UNCHANGED ns
    /\ UNCHANGED << battery_types, session, shown, i, frame, reruns >>

\* lines 92-94 and 22-28: the call, up to the loop
Call ==
    /\ pc = "call"
    /\ frame' = enter(ns.b_config, ns.series_cells, ns.parallel_cells,
                      ns.sim_mode, ns.simulation_time)
    /\ pc' = "loop"
    /\ UNCHANGED << battery_types, session, shown, i, ns, error, reruns >>

\* lines 30-41: one iteration
Iterate ==
    /\ pc = "loop"
    /\ frame.done < Len(frame.time)
    /\ frame' = loop_body(frame)
    /\ UNCHANGED << battery_types, session, shown, i, ns, pc, error, reruns >>

\* lines 43-48 and the assignment of line 92
Return ==
    /\ pc = "loop"
    /\ frame.done = Len(frame.time)
    /\ LET r == return_value(frame)
       IN  ns' = Bind(Bind(Bind(ns, "df", r[1]),
                     "total_voltage", r[2]), "total_capacity", r[3])
    /\ frame' = EmptyScope
    /\ pc' = "returned"
    /\ UNCHANGED << battery_types, session, shown, i, error, reruns >>

\* lines 96-122: the values handed to the five metrics and the three plots
\* (the df of the dashboard is never empty: the duration slider starts at 10)
dashboard(scope) ==
    [ Type       |-> scope.battery_type,
      Voltage    |-> scope.total_voltage,
      Capacity   |-> scope.total_capacity,
      Efficiency |-> Mul(scope.b_config.efficiency, Num(100)),
      Current    |-> scope.df.Current[1],
      plots      |-> scope.df ]

Render ==
    /\ pc = "returned"
    /\ shown' = [shown EXCEPT ![i] = << dashboard(ns) >>]
    /\ IF i + 1 < NumCells
       THEN i' = i + 1 /\ pc' = "widgets"
       ELSE i' = i /\ pc' = "done"
    /\ UNCHANGED << battery_types, session, ns, frame, error, reruns >>

\* the user moves one widget: the script is re-run from the top in a fresh
\* namespace, only st.session_state survives
Rerun ==
    /\ reruns < MaxReruns
    /\ \E c \in Cells, w \in Widgets :
         \E v \in Reachable(w) :
            /\ v # session[key(w, c)]
            /\ session' = [session EXCEPT ![key(w, c)] = v]
    /\ reruns' = reruns + 1
    /\ shown' = Unrendered
    /\ i' = 0
    /\ ns' = EmptyScope
    /\ frame' = EmptyScope
    /\ pc' = "widgets"
    /\ error' = ""
    /\ UNCHANGED battery_types

\* ------------------------------------------------------------------------
\* Spec: lookup and call from any binding of the five inputs.
\* ------------------------------------------------------------------------
TypeArgs == DOMAIN BatteryTypes \cup {"Unobtainium"}
DurationArgs == (0 - 1)..MaxDuration
SeriesArgs == 0..MaxSeries
ParallelArgs == 0..MaxParallel

Init ==
    /\ battery_types = BatteryTypes
    /\ session = EmptyScope
    /\ shown = << >>
    /\ i = 0
    /\ \E n \in TypeArgs, s \in SeriesArgs, p \in ParallelArgs,
          m \in Modes, d \in DurationArgs :
         ns = [ battery_type |-> n, series_cells |-> s, parallel_cells |-> p,
                sim_mode |-> m, simulation_time |-> d ]
    /\ frame = EmptyScope
    /\ pc = "lookup"
    /\ error = ""
    /\ reruns = 0

Next == Lookup \/ Call \/ Iterate \/ Return

Spec == Init /\ [][Next]_vars

\* ------------------------------------------------------------------------
\* SpecDash: the script, started by Streamlit with every widget at its
\* default, re-run on every widget change.
\* ------------------------------------------------------------------------
InitDash ==
    /\ battery_types = BatteryTypes
    /\ session = [k \in {key(w, c) : w \in Widgets, c \in Cells} |-> default(k[1])]
    /\ shown = Unrendered
    /\ i = 0
    /\ ns = EmptyScope
    /\ frame = EmptyScope
    /\ pc = "widgets"
    /\ error = ""
    /\ reruns = 0

NextDash == ReadWidgets \/ Lookup \/ Call \/ Iterate \/ Return \/ Render \/ Rerun

SpecDash == InitDash /\ [][NextDash]_vars

\* ------------------------------------------------------------------------
\* Vocabulary of the properties.
\* ------------------------------------------------------------------------
\* the request of Spec: the five inputs bound in the script's namespace
ValidRequest ==
    /\ ns.simulation_time >= 1
    /\ ns.series_cells >= 1
    /\ ns.parallel_cells >= 1

\* the samples recorded so far: the lists of the running call, then the
\* columns of the returned table
Samples ==
    IF pc = "loop"
    THEN [Time |-> SubSeq(frame.time, 1, frame.done), SOC |-> frame.soc,
          Current |-> frame.current, Voltage |-> frame.voltage]
    ELSE IF pc = "returned" THEN ns.df
    ELSE [Time |-> << >>, SOC |-> << >>, Current |-> << >>, Voltage |-> << >>]

InUnit(x, lo, hi) == Leq(lo, x) /\ Leq(x, hi)

Sign(mode) == IF mode = "Charging" THEN Num(1) ELSE Num(0 - 1)

\* C1: a call with durationSeconds < 1, seriesCount < 1 or parallelCount < 1
\* ends in an InvalidParameters error before any sample is recorded and never
\* returns a result.
C1_InvalidParametersRejected ==
    (Bound(ns, "b_config") /\ ~ValidRequest)
        => /\ pc = "loop" => frame.done = 0
           /\ pc \notin {"call", "loop"}
                => /\ pc = "raised"
                   /\ error = "InvalidParameters"
                   /\ ~Bound(ns, "df")

\* C2: a valid request returns exactly durationSeconds samples and the i-th
\* (0-based) has time i.
C2_SampleTimes ==
    (pc = "returned" /\ ValidRequest)
        => LET df == ns.df
               d  == ns.simulation_time
           IN  /\ Len(df.Time) = d
               /\ Len(df.SOC) = d
               /\ Len(df.Current) = d
               /\ Len(df.Voltage) = d
               /\ \A k \in 1..d : df.Time[k] = k - 1

C2_Witness ==
    /\ pc = "returned"
    /\ ValidRequest
    /\ ns.simulation_time >= 3
    /\ Len(ns.df.Time) >= 3

\* C3: for a valid request the running SOC and every recorded SOC lie in
\* [0, 100], at every step of the loop and in the returned table.
C3_SocInRange ==
    ValidRequest
        => /\ pc = "loop" => InUnit(frame.soc_val, Num(0), Num(100))
           /\ \A k \in 1..Len(Samples.SOC) :
                 InUnit(Samples.SOC[k], Num(0), Num(100))

C3_Witness ==
    /\ pc = "loop"
    /\ ValidRequest
    /\ ns.sim_mode = "Discharging"
    /\ frame.done >= 2
    /\ frame.soc_val # Num(0)

\* C4: for a valid request the recorded SOC never decreases under Charging
\* and never increases under Discharging, sample to sample.
C4_SocMonotone ==
    ValidRequest
        => \A k \in 1..(Len(Samples.SOC) - 1) :
              IF ns.sim_mode = "Charging"
              THEN Leq(Samples.SOC[k], Samples.SOC[k + 1])
              ELSE Leq(Samples.SOC[k + 1], Samples.SOC[k])

C4_Witness ==
    /\ pc = "returned"
    /\ ValidRequest
    /\ ns.sim_mode = "Charging"
    /\ Len(ns.df.SOC) >= 2
    /\ ns.df.SOC[1] # ns.df.SOC[2]

\* C5: the sample of step k (0-based) holds k + 1 increments: min(100,
\* (k+1)*100/duration) under Charging, max(0, 100 - (k+1)*100/duration) under
\* Discharging; so the first sample is not the initial value, the last one is
\* 100 (Charging) or 0 (Discharging), and duration 1 gives that single sample.
C5_IncrementBeforeRecord ==
    ValidRequest
        => LET d   == ns.simulation_time
               soc == Samples.SOC
               closed(k) ==
                   IF ns.sim_mode = "Charging"
                   THEN min(Num(100), Rat(k * 100, d))
                   ELSE max(Num(0), Sub(Num(100), Rat(k * 100, d)))
               final == IF ns.sim_mode = "Charging" THEN Num(100) ELSE Num(0)
           IN  /\ \A k \in 1..Len(soc) : soc[k] = closed(k)
               /\ pc = "returned"
                    => /\ soc[1] # initial_soc(ns.sim_mode)
                       /\ soc[Len(soc)] = final
                       /\ d = 1 => soc = << final >>

C5_Witness ==
    /\ pc = "returned"
    /\ ValidRequest
    /\ ns.simulation_time = 1
    /\ ns.sim_mode = "Discharging"
    /\ ns.df.SOC = << Num(0) >>

\* C6: for a valid request every recorded current is the same value,
\* nominalCapacity * parallelCount / duration times +1 (Charging) or -1
\* (Discharging), whatever the step, the running SOC and seriesCount.
C6_CurrentConstant ==
    ValidRequest
        => LET expected ==
                   Mul(Div(Mul(BatteryTypes[ns.battery_type].capacity,
                               Num(ns.parallel_cells)),
                           Num(ns.simulation_time)),
                       Sign(ns.sim_mode))
           IN  /\ \A k \in 1..Len(Samples.Current) : Samples.Current[k] = expected
               /\ pc = "returned"
                    => \A s \in 1..MaxSeries :
                          simulate_battery(ns.b_config, s, ns.parallel_cells,
                              ns.sim_mode, ns.simulation_time)[1].Current
                          = ns.df.Current

C6_Witness ==
    /\ pc = "returned"
    /\ ValidRequest
    /\ ns.sim_mode = "Discharging"
    /\ ns.parallel_cells = 2
    /\ Len(ns.df.Current) >= 2
    /\ ns.df.Current[2] = Rat(0 - 2 * BatteryTypes[ns.battery_type].capacity.num,
                              ns.simulation_time * BatteryTypes[ns.battery_type].capacity.den)

\* C7: for a valid request every recorded voltage is packVoltage * soc / 100
\* of the same sample's SOC, with packVoltage = nominalVoltage * seriesCount,
\* so it lies in [0, packVoltage]; the returned packVoltage and packCapacity
\* are those of the request.
C7_VoltageFromSoc ==
    ValidRequest
        => LET packVoltage  == Mul(BatteryTypes[ns.battery_type].voltage,
                                   Num(ns.series_cells))
               packCapacity == Mul(BatteryTypes[ns.battery_type].capacity,
                                   Num(ns.parallel_cells))
           IN  /\ Len(Samples.Voltage) = Len(Samples.SOC)
               /\ \A k \in 1..Len(Samples.Voltage) :
                     /\ Samples.Voltage[k]
                          = Mul(packVoltage, Div(Samples.SOC[k], Num(100)))
                     /\ InUnit(Samples.Voltage[k], Num(0), packVoltage)
               /\ pc = "loop"
                    => /\ frame.total_voltage = packVoltage
                       /\ frame.total_capacity = packCapacity
               /\ pc = "returned"
                    => /\ ns.total_voltage = packVoltage
                       /\ ns.total_capacity = packCapacity

C7_Witness ==
    /\ pc = "returned"
    /\ ValidRequest
    /\ ns.series_cells = 2
    /\ Len(ns.df.Voltage) >= 2
    /\ ns.df.Voltage[1] # Num(0)
    /\ ns.df.Voltage[1] # ns.total_voltage

\* C8: looking up a name that is no key of the catalog ends in an error at
\* once: nothing is simulated and no profile stands in for the missing one;
\* looking up a key gives that entry unchanged; the catalog never changes.
C8_UnknownChemistry ==
    /\ battery_types = BatteryTypes
    /\ pc # "lookup"
         => IF ns.battery_type \in DOMAIN BatteryTypes
            THEN /\ pc # "raised"
                 /\ Bound(ns, "b_config")
                 /\ ns.b_config = BatteryTypes[ns.battery_type]
            ELSE /\ pc = "raised"
                 /\ error = "KeyError"
                 /\ frame = EmptyScope
                 /\ ~Bound(ns, "b_config")
                 /\ ~Bound(ns, "df")

C8_Witness ==
    /\ pc = "raised"
    /\ ns.battery_type = "Unobtainium"
    /\ error = "KeyError"

\* C9: two valid requests that differ only in the profile's efficiency get
\* the same samples, pack voltage and pack capacity.
Efficiencies == {BatteryTypes[n].efficiency : n \in DOMAIN BatteryTypes}

C9_EfficiencyUnused ==
    (pc = "returned" /\ ValidRequest)
        => \A e \in Efficiencies :
              simulate_battery([ns.b_config EXCEPT !.efficiency = e],
                  ns.series_cells, ns.parallel_cells, ns.sim_mode,
                  ns.simulation_time)
              = << ns.df, ns.total_voltage, ns.total_capacity >>

C9_Witness ==
    /\ pc = "returned"
    /\ ValidRequest
    /\ ns.b_config.efficiency = Rat(75, 100)
    /\ Len(ns.df.SOC) >= 2

\* C10: in a run of the dashboard script, what is computed and rendered for
\* cell c is the simulation of cell c's own five widgets, whatever the other
\* cells' widgets hold and whatever an earlier cell or an earlier run left
\* behind; no frame of a call outlives the call; every cell is rendered.
OwnResult(c) ==
    LET b_config == BatteryTypes[session[<< "type", c >>]]
        r == simulate_battery(b_config, session[<< "series", c >>],
                 session[<< "parallel", c >>], session[<< "mode", c >>],
                 session[<< "duration", c >>])
    IN  [ Type       |-> session[<< "type", c >>],
          Voltage    |-> r[2],
          Capacity   |-> r[3],
          Efficiency |-> Mul(b_config.efficiency, Num(100)),
          Current    |-> r[1].Current[1],
          plots      |-> r[1] ]

C10_CellsIndependent ==
    /\ pc \in {"widgets", "done"}
         => \A c \in Cells : shown[c] # << >> => shown[c] = << OwnResult(c) >>
    /\ pc \in {"widgets", "done"} => \A c \in Cells : (shown[c] # << >>) = (c < i \/ pc = "done")
    /\ pc # "loop" => frame = EmptyScope

C10_Witness ==
    /\ pc = "done"
    /\ reruns >= 1
    /\ session[<< "series", 0 >>] # session[<< "series", 1 >>]
    /\ shown[0] # shown[1]
    /\ shown[0] = << OwnResult(0) >>

====
